---- MODULE Spec2Model ----
(***************************************************************************)
(* Model of the akeyless Terraform provider:                               *)
(*   - provider.go: inputValidation, setAuthBody, configureProvider and    *)
(*     the process-wide login variables they share;                        *)
(*   - resource_auth_method_saml.go: the Create / Read / Update / Delete / *)
(*     Import handlers of the SAML auth method resource, run against a     *)
(*     model of the remote API.                                            *)
(*                                                                         *)
(* Go pointers to string, int64, ... are modelled as sets: Nil is the      *)
(* empty set and Ptr(v) the singleton {v}.  Go slices are sequences; a nil *)
(* slice and an empty slice are both <<>> (the code only ever takes their  *)
(* len).  The strings that are joined and split (the CIDR whitelist) are   *)
(* sequences of one-character strings; all other strings are TLA+ strings. *)
(***************************************************************************)
EXTENDS Integers, Sequences, FiniteSets, TLC

----------------------------------------------------------------------------
(* Bounds *)

\* Largest number of blocks of one type in a provider configuration.
MaxEntries == 2

\* Largest number of elements of a bound_ips set.
MaxIps == 2

----------------------------------------------------------------------------
(* Pointers *)

Nil == {}
Ptr(v) == {v}
Deref(p) == CHOOSE x \in p : TRUE

\* Go's error value nil.
NoErr == "nil"

----------------------------------------------------------------------------
(* provider.go *)

VARIABLES
    apiKeyLogin,    \* provider.go:18, process-wide
    emailLogin,     \* provider.go:19, process-wide
    awsIAMLogin,    \* provider.go:20, process-wide
    azureADLogin,   \* provider.go:21, process-wide
    env,            \* the process environment: AKEYLESS_ACCESS_ID / _KEY
    cfg,            \* the ResourceData `d` of the latest configureProvider
    authBody,       \* the akeyless.Auth body of the latest configureProvider
    calls,          \* outbound calls of the latest configureProvider, in order
    ret,            \* what the latest configureProvider returned
    ranSetAuthBody, \* whether the latest configureProvider ran setAuthBody
    leftBehind      \* whether the login variables held, when the latest
                    \* configureProvider began, values its configuration does not have

provVars == <<apiKeyLogin, emailLogin, awsIAMLogin, azureADLogin, env, cfg,
              authBody, calls, ret, ranSetAuthBody, leftBehind>>

VARIABLES
    d,       \* the schema.ResourceData of the SAML auth method resource
    remote,  \* the auth methods the remote API holds, by name
    last     \* the latest handler call: its request, response and result

resVars == <<d, remote, last>>

vars == <<provVars, resVars>>

\* common.ApiKey, common.Password, common.AwsIAM, common.AzureAD
ApiKey == "api_key"
Password == "password"
AwsIAM == "aws_iam"
AzureAD == "azure_ad"

\* One block of each login type, as the schema of Provider() shapes it.
ApiKeyBlock == [access_id |-> "id-apikey", access_key |-> "key-apikey"]
EmailBlock == [admin_email |-> "admin@x", admin_password |-> "pw"]
AwsBlock == [access_id |-> "id-aws"]
AzureBlock == [access_id |-> "id-azure"]

\* The lists d.Get returns for a block type that appears 0..MaxEntries times.
Blocks(b) == { [i \in 1..n |-> b] : n \in 0..MaxEntries }

\* Every provider configuration (the login blocks of it).
Configs ==
    [api_key_login : Blocks(ApiKeyBlock), email_login : Blocks(EmailBlock),
     aws_iam_login : Blocks(AwsBlock), azure_ad_login : Blocks(AzureBlock)]

\* The values of the two environment variables ("" is unset).
Envs ==
    { [AKEYLESS_ACCESS_ID |-> "", AKEYLESS_ACCESS_KEY |-> ""],
      [AKEYLESS_ACCESS_ID |-> "id-env", AKEYLESS_ACCESS_KEY |-> ""],
      [AKEYLESS_ACCESS_ID |-> "id-env", AKEYLESS_ACCESS_KEY |-> "key-env"] }

\* The four process-wide login variables as one record.
Globals ==
    [apiKeyLogin |-> apiKeyLogin, emailLogin |-> emailLogin,
     awsIAMLogin |-> awsIAMLogin, azureADLogin |-> azureADLogin]

ErrApiKeyOnce == "api_key_login block may appear only once"
ErrEmailOnce == "emailLogin block may appear only once"
ErrAwsOnce == "aws_iam_login block may appear only once"
ErrAzureOnce == "azure_ad_login block may appear only once"
ErrNoMethod == "please support login method: api_key_login/password_login/aws_iam_login/azure_ad_login"
ErrCloudId == "require Cloud ID: <sdk error>"
ErrAuthApi == "authentication failed: <api error body>"
ErrAuthTransport == "authentication failed: <transport error>"

\* One outbound call and whether it succeeded.
Call(fn, ok) == [fn |-> fn, ok |-> ok]

\* akeyless.NewAuthWithDefaults(): no credential field set.
NewAuthWithDefaults ==
    [AccessId |-> Nil, AccessKey |-> Nil, AdminEmail |-> Nil,
     AdminPassword |-> Nil, CloudId |-> Nil, AccessType |-> Nil]

\* inputValidation without the api_key_login length check.
inputValidationNoApiKeyCheck(conf, g) ==
    LET g2 == [g EXCEPT !.apiKeyLogin = conf.api_key_login,
                        !.emailLogin = conf.email_login]
        g3 == [g2 EXCEPT !.awsIAMLogin = conf.aws_iam_login]
        g4 == [g3 EXCEPT !.azureADLogin = conf.azure_ad_login]
    IN  IF Len(g2.emailLogin) > 1 THEN [err |-> ErrEmailOnce, g |-> g2]
        ELSE IF Len(g3.awsIAMLogin) > 1 THEN [err |-> ErrAwsOnce, g |-> g3]
        ELSE IF Len(g4.azureADLogin) > 1 THEN [err |-> ErrAzureOnce, g |-> g4]
        ELSE [err |-> NoErr, g |-> g4]

\* inputValidation without the azure_ad_login length check.
inputValidationNoAzureCheck(conf, g) ==
    LET g1 == [g EXCEPT !.apiKeyLogin = conf.api_key_login]
        g2 == [g1 EXCEPT !.emailLogin = conf.email_login]
        g3 == [g2 EXCEPT !.awsIAMLogin = conf.aws_iam_login]
        g4 == [g3 EXCEPT !.azureADLogin = conf.azure_ad_login]
    IN  IF Len(g1.apiKeyLogin) > 1 THEN [err |-> ErrApiKeyOnce, g |-> g1]
        ELSE IF Len(g2.emailLogin) > 1 THEN [err |-> ErrEmailOnce, g |-> g2]
        ELSE IF Len(g3.awsIAMLogin) > 1 THEN [err |-> ErrAwsOnce, g |-> g3]
        ELSE [err |-> NoErr, g |-> g4]

\* inputValidation that assigns a login variable only when the
\* configuration has the block, and otherwise leaves the old value.
inputValidationKeepsOld(conf, g) ==
    LET keep(old, new) == IF Len(new) = 0 THEN old ELSE new
        g1 == [g EXCEPT !.apiKeyLogin = keep(@, conf.api_key_login)]
        g2 == [g1 EXCEPT !.emailLogin = keep(@, conf.email_login)]
        g3 == [g2 EXCEPT !.awsIAMLogin = keep(@, conf.aws_iam_login)]
        g4 == [g3 EXCEPT !.azureADLogin = keep(@, conf.azure_ad_login)]
    IN  IF Len(g1.apiKeyLogin) > 1 THEN [err |-> ErrApiKeyOnce, g |-> g1]
        ELSE IF Len(g2.emailLogin) > 1 THEN [err |-> ErrEmailOnce, g |-> g2]
        ELSE IF Len(g3.awsIAMLogin) > 1 THEN [err |-> ErrAwsOnce, g |-> g3]
        ELSE IF Len(g4.azureADLogin) > 1 THEN [err |-> ErrAzureOnce, g |-> g4]
        ELSE [err |-> NoErr, g |-> g4]

\* inputValidation(d) on configuration conf, run with the login variables
\* holding g: it assigns the variables one after another and returns at the
\* first list longer than one.  Result: the error and the login variables
\* as it leaves them.
inputValidation(conf, g) ==
    LET g1 == [g EXCEPT !.apiKeyLogin = conf.api_key_login]
        g2 == [g1 EXCEPT !.emailLogin = conf.email_login]
        g3 == [g2 EXCEPT !.awsIAMLogin = conf.aws_iam_login]
        g4 == [g3 EXCEPT !.azureADLogin = conf.azure_ad_login]
    IN  IF Len(g1.apiKeyLogin) > 1 THEN [err |-> ErrApiKeyOnce, g |-> g1]
        ELSE IF Len(g2.emailLogin) > 1 THEN [err |-> ErrEmailOnce, g |-> g2]
        ELSE IF Len(g3.awsIAMLogin) > 1 THEN [err |-> ErrAwsOnce, g |-> g3]
        ELSE IF Len(g4.azureADLogin) > 1 THEN [err |-> ErrAzureOnce, g |-> g4]
        ELSE [err |-> NoErr, g |-> g4]

\* setAuthBody that consults the environment pair before the api_key_login
\* block, and takes the pair when either variable is set.
setAuthBodyEnvFirst(body, g, e, cloudOK) ==
    IF e.AKEYLESS_ACCESS_ID # "" \/ e.AKEYLESS_ACCESS_KEY # ""
    THEN [err |-> NoErr, calls |-> <<>>,
          body |-> [body EXCEPT !.AccessId = Ptr(e.AKEYLESS_ACCESS_ID),
                                !.AccessKey = Ptr(e.AKEYLESS_ACCESS_KEY),
                                !.AccessType = Ptr(ApiKey)]]
    ELSE IF Len(g.apiKeyLogin) = 1
    THEN [err |-> NoErr, calls |-> <<>>,
          body |-> [body EXCEPT !.AccessId = Ptr(g.apiKeyLogin[1].access_id),
                                !.AccessKey = Ptr(g.apiKeyLogin[1].access_key),
                                !.AccessType = Ptr(ApiKey)]]
    ELSE IF Len(g.emailLogin) = 1
    THEN [err |-> NoErr, calls |-> <<>>,
          body |-> [body EXCEPT !.AdminEmail = Ptr(g.emailLogin[1].admin_email),
                                !.AdminPassword = Ptr(g.emailLogin[1].admin_password),
                                !.AccessType = Ptr(Password)]]
    ELSE [err |-> ErrNoMethod, calls |-> <<>>, body |-> body]

\* setAuthBody(authBody), reading the login variables g and the environment
\* e; cloudOK says whether the cloud SDK's GetCloudId succeeds.  Result: the
\* error, the body as it leaves it, and the outbound calls it made.  The
\* elements of a login list are the maps the schema's Elem Resource gives,
\* so the type assertion of line 152 succeeds.
setAuthBody(body, g, e, cloudOK) ==
    IF Len(g.apiKeyLogin) = 1
    THEN [err |-> NoErr, calls |-> <<>>,
          body |-> [body EXCEPT !.AccessId = Ptr(g.apiKeyLogin[1].access_id),
                                !.AccessKey = Ptr(g.apiKeyLogin[1].access_key),
                                !.AccessType = Ptr(ApiKey)]]
    ELSE IF e.AKEYLESS_ACCESS_ID # "" /\ e.AKEYLESS_ACCESS_KEY # ""
    THEN [err |-> NoErr, calls |-> <<>>,
          body |-> [body EXCEPT !.AccessId = Ptr(e.AKEYLESS_ACCESS_ID),
                                !.AccessKey = Ptr(e.AKEYLESS_ACCESS_KEY),
                                !.AccessType = Ptr(ApiKey)]]
    ELSE IF Len(g.emailLogin) = 1
    THEN [err |-> NoErr, calls |-> <<>>,
          body |-> [body EXCEPT !.AdminEmail = Ptr(g.emailLogin[1].admin_email),
                                !.AdminPassword = Ptr(g.emailLogin[1].admin_password),
                                !.AccessType = Ptr(Password)]]
    ELSE IF Len(g.awsIAMLogin) = 1
    THEN LET b1 == [body EXCEPT !.AccessId = Ptr(g.awsIAMLogin[1].access_id)]
         IN  IF ~cloudOK
             THEN [err |-> ErrCloudId, calls |-> <<Call("aws.GetCloudId", FALSE)>>, body |-> b1]
             ELSE [err |-> NoErr, calls |-> <<Call("aws.GetCloudId", TRUE)>>,
                   body |-> [b1 EXCEPT !.CloudId = Ptr("cloudid-aws"),
                                       !.AccessType = Ptr(AwsIAM)]]
    ELSE IF Len(g.azureADLogin) = 1
    THEN LET b1 == [body EXCEPT !.AccessId = Ptr(g.azureADLogin[1].access_id)]
         IN  IF ~cloudOK
             THEN [err |-> ErrCloudId, calls |-> <<Call("azure.GetCloudId", FALSE)>>, body |-> b1]
             ELSE [err |-> NoErr, calls |-> <<Call("azure.GetCloudId", TRUE)>>,
                   body |-> [b1 EXCEPT !.CloudId = Ptr("cloudid-azure"),
                                       !.AccessType = Ptr(AzureAD)]]
    ELSE [err |-> ErrNoMethod, calls |-> <<>>, body |-> body]

\* What the outside world does during one configureProvider: everything
\* succeeds, the cloud SDK's GetCloudId fails, or the Auth call fails with
\* a structured API error or with a transport error.
Worlds == {"ok", "cloud_id_error", "auth_api_error", "auth_transport_error"}

\* The token exchange with one retry after a failed Auth call.
tokenExchangeRetry(world) ==
    IF world = "auth_api_error"
    THEN [calls |-> <<Call("Auth", FALSE), Call("Auth", FALSE)>>,
          meta |-> Nil, err |-> ErrAuthApi]
    ELSE IF world = "auth_transport_error"
    THEN [calls |-> <<Call("Auth", FALSE), Call("Auth", TRUE)>>,
          meta |-> Ptr("token"), err |-> NoErr]
    ELSE [calls |-> <<Call("Auth", TRUE)>>, meta |-> Ptr("token"), err |-> NoErr]

\* Lines 136-147 of configureProvider: the one Auth call and what is
\* returned after it.
tokenExchange(world) ==
    IF world = "auth_api_error"
    THEN [calls |-> <<Call("Auth", FALSE)>>, meta |-> Nil, err |-> ErrAuthApi]
    ELSE IF world = "auth_transport_error"
    THEN [calls |-> <<Call("Auth", FALSE)>>, meta |-> Nil, err |-> ErrAuthTransport]
    ELSE [calls |-> <<Call("Auth", TRUE)>>, meta |-> Ptr("token"), err |-> NoErr]

\* configureProvider(d) on configuration conf.  Result: the login
\* variables, the body,
\* the outbound calls in order, the returned providerMeta token (Nil for
\* the "" that accompanies an error) and the returned error.
configureProvider(conf, g, e, world) ==
    LET v == inputValidation(conf, g)
        s == setAuthBody(NewAuthWithDefaults, v.g, e, world # "cloud_id_error")
        t == tokenExchange(world)
    IN  IF v.err # NoErr
        THEN [g |-> v.g, body |-> NewAuthWithDefaults, calls |-> <<>>,
              meta |-> Nil, err |-> v.err, ranSetAuthBody |-> FALSE]
        ELSE IF s.err # NoErr
        THEN [g |-> v.g, body |-> s.body, calls |-> s.calls,
              meta |-> Nil, err |-> s.err, ranSetAuthBody |-> TRUE]
        ELSE [g |-> v.g, body |-> s.body, calls |-> s.calls \o t.calls,
              meta |-> t.meta, err |-> t.err, ranSetAuthBody |-> TRUE]

NoConfig ==
    [api_key_login |-> <<>>, email_login |-> <<>>,
     aws_iam_login |-> <<>>, azure_ad_login |-> <<>>]

\* The values the four login variables hold when all come from conf.
LoginBlocks(conf) ==
    [apiKeyLogin |-> conf.api_key_login, emailLogin |-> conf.email_login,
     awsIAMLogin |-> conf.aws_iam_login, azureADLogin |-> conf.azure_ad_login]

\* Terraform configures the provider with configuration conf.
ConfigureProvider(conf, world) ==
    \E r \in {configureProvider(conf, Globals, env, world)} :
        /\ apiKeyLogin' = r.g.apiKeyLogin
        /\ emailLogin' = r.g.emailLogin
        /\ awsIAMLogin' = r.g.awsIAMLogin
        /\ azureADLogin' = r.g.azureADLogin
        /\ cfg' = conf
        /\ authBody' = r.body
        /\ calls' = r.calls
        /\ ret' = [called |-> TRUE, meta |-> r.meta, err |-> r.err]
        /\ ranSetAuthBody' = r.ranSetAuthBody
        /\ leftBehind' = (Globals # LoginBlocks(conf))
        /\ UNCHANGED <<env, resVars>>

\* The worlds that make a difference to configuration conf: a configuration
\* that inputValidation rejects reaches no outbound call, so one world
\* stands for all.
WorldsFor(conf) ==
    IF \E k \in DOMAIN conf : Len(conf[k]) > 1 THEN {"ok"} ELSE Worlds

ProvNext ==
    \E conf \in Configs : \E world \in WorldsFor(conf) : ConfigureProvider(conf, world)


----------------------------------------------------------------------------
(* Properties of provider.go *)

\* The calls of the given names among the outbound calls.
CallsTo(fns) == { i \in DOMAIN calls : calls[i].fn \in fns }

\* The latest configureProvider sent the Auth request.
AuthSent == CallsTo({"Auth"}) # {}

CloudCalls == {"aws.GetCloudId", "azure.GetCloudId"}

\* The errors of the configuration class: a block type that appears more
\* than once, or no resolvable strategy.
OnceErrors == {ErrApiKeyOnce, ErrEmailOnce, ErrAwsOnce, ErrAzureOnce}
ConfigErrors == OnceErrors \cup {ErrNoMethod}

\* Some block type appears more than once in conf.
MultiBlock(conf) == \E k \in DOMAIN conf : Len(conf[k]) > 1

\* The block types that appear in conf.
Populated(conf) == { k \in DOMAIN conf : Len(conf[k]) > 0 }

EnvPairSet(e) == e.AKEYLESS_ACCESS_ID # "" /\ e.AKEYLESS_ACCESS_KEY # ""

\* The strategy the priority order picks for conf and e.
Strategy(conf, e) ==
    IF Len(conf.api_key_login) > 0 THEN "APIKey-block"
    ELSE IF EnvPairSet(e) THEN "APIKey-env"
    ELSE IF Len(conf.email_login) > 0 THEN "Password"
    ELSE IF Len(conf.aws_iam_login) > 0 THEN "AwsIAM"
    ELSE IF Len(conf.azure_ad_login) > 0 THEN "AzureAD"
    ELSE "none"

\* The request body of each strategy: its access type, its credential
\* fields, and nothing else.
BodyOf(strategy, conf, e) ==
    CASE strategy = "APIKey-block" ->
            [AccessId |-> {conf.api_key_login[1].access_id},
             AccessKey |-> {conf.api_key_login[1].access_key},
             AdminEmail |-> {}, AdminPassword |-> {}, CloudId |-> {},
             AccessType |-> {ApiKey}]
      [] strategy = "APIKey-env" ->
            [AccessId |-> {e.AKEYLESS_ACCESS_ID},
             AccessKey |-> {e.AKEYLESS_ACCESS_KEY},
             AdminEmail |-> {}, AdminPassword |-> {}, CloudId |-> {},
             AccessType |-> {ApiKey}]
      [] strategy = "Password" ->
            [AccessId |-> {}, AccessKey |-> {},
             AdminEmail |-> {conf.email_login[1].admin_email},
             AdminPassword |-> {conf.email_login[1].admin_password},
             CloudId |-> {}, AccessType |-> {Password}]
      [] strategy = "AwsIAM" ->
            [AccessId |-> {conf.aws_iam_login[1].access_id}, AccessKey |-> {},
             AdminEmail |-> {}, AdminPassword |-> {},
             CloudId |-> {"cloudid-aws"}, AccessType |-> {AwsIAM}]
      [] strategy = "AzureAD" ->
            [AccessId |-> {conf.azure_ad_login[1].access_id}, AccessKey |-> {},
             AdminEmail |-> {}, AdminPassword |-> {},
             CloudId |-> {"cloudid-azure"}, AccessType |-> {AzureAD}]

\* C1: whenever setAuthBody runs on a configuration whose blocks have at
\* most one entry each, it fails with the "no login method" error exactly
\* when the priority order (api_key_login block, environment pair,
\* email_login, aws_iam_login, azure_ad_login) finds no strategy; when it
\* succeeds (the Auth request is sent) the body is that of the first
\* strategy in the order: its access type and its credential fields only.
C1_SelectsByPriority ==
    ranSetAuthBody =>
        /\ (ret.err = ErrNoMethod) <=> (Strategy(cfg, env) = "none")
        /\ AuthSent => authBody = BodyOf(Strategy(cfg, env), cfg, env)

\* C1 witness: Password is selected although aws_iam_login and
\* azure_ad_login are configured too and one environment variable is set.
C1_Witness ==
    /\ AuthSent
    /\ Populated(cfg) = {"email_login", "aws_iam_login", "azure_ad_login"}
    /\ env.AKEYLESS_ACCESS_ID # ""
    /\ authBody.AccessType = {Password}

\* C2: a configuration in which a block type appears more than once, or
\* for which no strategy is resolvable, ends in a configuration error; and
\* whenever configureProvider ends in a configuration error it returns no
\* session and has made no outbound call.
C2_ConfigErrorBeforeAnyCall ==
    ret.called =>
        /\ (MultiBlock(cfg) \/ Strategy(cfg, env) = "none")
              => ret.err \in ConfigErrors
        /\ ret.err \in ConfigErrors => (ret.meta = Nil /\ calls = <<>>)

\* C2 witness: email_login appears twice next to a single aws_iam_login
\* block, and the invocation ended with the email error.
C2_Witness ==
    /\ ret.called
    /\ ret.err = ErrEmailOnce
    /\ Len(cfg.aws_iam_login) = 1
    /\ calls = <<>>

\* C3 as stated: a configuration that reaches the token exchange has at
\* most one of the four credential blocks non-empty.
C3_AtMostOneBlockPopulated ==
    AuthSent => Cardinality(Populated(cfg)) <= 1

\* C3 as amended: a configuration that reaches the token exchange has at
\* most one entry in each of the four credential blocks, and a
\* configuration with a block type appearing more than once is rejected
\* with that block type's error before any call.
C3_AtMostOneEntryPerBlock ==
    /\ AuthSent => \A k \in DOMAIN cfg : Len(cfg[k]) <= 1
    /\ (ret.called /\ MultiBlock(cfg)) => (ret.err \in OnceErrors /\ ~AuthSent)

\* C3 witness: the token exchange is reached with two different block
\* types populated.
C3_Witness ==
    /\ AuthSent
    /\ Populated(cfg) = {"api_key_login", "email_login"}

\* C8: the Auth request is attempted at most once per configureProvider; a
\* session is returned exactly when that attempt succeeded, and otherwise
\* an error; a failed cloud-identity fetch ends the invocation with an
\* error, no session and no Auth attempt.
C8_SingleAuthAttempt ==
    ret.called =>
        /\ Cardinality(CallsTo({"Auth"})) <= 1
        /\ (ret.meta # Nil) <=> (\E i \in CallsTo({"Auth"}) : calls[i].ok)
        /\ (ret.meta # Nil) <=> (ret.err = NoErr)
        /\ (\E i \in CallsTo(CloudCalls) : ~calls[i].ok)
              => (ret.err = ErrCloudId /\ ret.meta = Nil /\ ~AuthSent)

\* C8 witness: the cloud identity was fetched, the one Auth attempt failed
\* and no session was returned.
C8_Witness ==
    /\ Len(calls) = 2
    /\ calls[1] = Call("aws.GetCloudId", TRUE)
    /\ calls[2] = Call("Auth", FALSE)
    /\ ret.meta = Nil
    /\ ret.err = ErrAuthApi

\* The credential values configuration conf and environment e can supply.
Supplied(conf, e) ==
    UNION { { conf[k][1][f] : f \in DOMAIN conf[k][1] } : k \in Populated(conf) }
        \cup {e.AKEYLESS_ACCESS_ID, e.AKEYLESS_ACCESS_KEY}

\* C10: whenever setAuthBody runs, the four login variables hold exactly
\* the blocks of that invocation's configuration, and every configured
\* credential in the body (access id, access key, email, password) is a
\* value of that configuration or of the environment.
C10_NoLeftoverLogin ==
    ranSetAuthBody =>
        /\ Globals = LoginBlocks(cfg)
        /\ \A f \in {"AccessId", "AccessKey", "AdminEmail", "AdminPassword"} :
              authBody[f] \subseteq Supplied(cfg, env)

\* C10 witness: earlier invocations left login values behind that the
\* latest configuration does not have, and the latest invocation,
\* configured with email_login alone, sent its request as Password.
C10_Witness ==
    /\ leftBehind
    /\ AuthSent
    /\ Populated(cfg) = {"email_login"}
    /\ authBody.AccessType = {Password}

----------------------------------------------------------------------------
(* Strings that are joined and split: sequences of one-character strings *)

Comma == ","

\* strings.Join(list, sep), as the remote API stores a list of CIDRs.
RECURSIVE Join(_, _)
Join(list, sep) ==
    IF Len(list) = 0 THEN <<>>
    ELSE IF Len(list) = 1 THEN list[1]
    ELSE list[1] \o <<sep>> \o Join(Tail(list), sep)

\* strings.Split(str, sep) for a one-character sep: the substrings between
\* the separators, <<"">> for the empty string.
RECURSIVE Split(_, _)
Split(str, sep) ==
    LET at == { i \in 1..Len(str) : str[i] = sep }
    IN  IF at = {} THEN <<str>>
        ELSE LET i == CHOOSE j \in at : \A k \in at : j <= k
             IN  <<SubSeq(str, 1, i - 1)>> \o Split(SubSeq(str, i + 1, Len(str)), sep)

\* The elements of a list: what d.Set stores in a TypeSet field.
SetOf(list) == { list[i] : i \in 1..Len(list) }

\* The orders in which schema.Set.List() may return the elements of a set.
Orderings(S) ==
    { f \in [1..Cardinality(S) -> S] : \A i, j \in 1..Cardinality(S) : f[i] = f[j] => i = j }

----------------------------------------------------------------------------
(* resource_auth_method_saml.go *)


\* net/http.StatusNotFound
StatusNotFound == 404

\* The auth method names the remote API knows of.
Names == {"n1", "n2"}

\* The name the resource block of the configuration gives its auth method.
ConfiguredNames == {"n1"}

\* Elements of a bound_ips set: two CIDR-like strings and one string that
\* holds a comma.
IpUniverse == { <<"1">>, <<"2">>, <<"1", Comma, "2">> }

BoundIpsSets == { S \in SUBSET IpUniverse : Cardinality(S) <= MaxIps }

\* The values of the remaining optional fields: all at their zero value,
\* or all set.
OptionalFields ==
    { [access_expires |-> 0, force_sub_claims |-> FALSE,
       idp_metadata_url |-> "", allowed_redirect_uri |-> {}],
      [access_expires |-> 7, force_sub_claims |-> TRUE,
       idp_metadata_url |-> "https://idp", allowed_redirect_uri |-> {"https://r"}] }

\* A resource block of the Terraform configuration (the Schema of
\* resourceAuthMethodSaml, without the computed access_id).
ResourceConfigs ==
    { [name |-> n, unique_identifier |-> "email", bound_ips |-> ips,
       access_expires |-> o.access_expires,
       force_sub_claims |-> o.force_sub_claims,
       idp_metadata_url |-> o.idp_metadata_url,
       allowed_redirect_uri |-> o.allowed_redirect_uri] :
      n \in ConfiguredNames, ips \in BoundIpsSets, o \in OptionalFields }

\* The ResourceData Terraform hands to Create for configuration c: no
\* identity yet, access_id not yet computed.
ResourceData(c) ==
    [id |-> "", name |-> c.name, unique_identifier |-> c.unique_identifier,
     bound_ips |-> c.bound_ips, access_expires |-> c.access_expires,
     force_sub_claims |-> c.force_sub_claims,
     idp_metadata_url |-> c.idp_metadata_url,
     allowed_redirect_uri |-> c.allowed_redirect_uri, access_id |-> ""]

\* The ResourceData Terraform hands to Import for identity path: every
\* field at its zero value.
ImportData(path) ==
    [id |-> path, name |-> "", unique_identifier |-> "", bound_ips |-> {},
     access_expires |-> 0, force_sub_claims |-> FALSE, idp_metadata_url |-> "",
     allowed_redirect_uri |-> {}, access_id |-> ""]

\* common.ExpandStringList: the configured strings as a []string.
ExpandStringList(list) == list

\* common.GetAkeylessPtr(&field, val): the field points to val.
GetAkeylessPtr(val) == Ptr(val)

(* The remote API *)

\* What a call of the remote API answers: success with a response, a
\* structured API error (akeyless.GenericOpenAPIError) with its HTTP status
\* and body, or a transport error with no HTTP response.
Ok(out) == [kind |-> "ok", status |-> 200, body |-> "", text |-> "", out |-> out]
ApiError(status, what) ==
    [kind |-> "api", status |-> status, body |-> "{\"error\": \"" \o what \o "\"}",
     text |-> what, out |-> Nil]
TransportError ==
    [kind |-> "transport", status |-> 0, body |-> "", text |-> "connection refused",
     out |-> Nil]

\* What can go wrong in the remote call whatever the request is.
Faults == {"none", "api", "transport"}

\* The server-computed access ID of the auth method created under a name.
AccessIdOf(name) == "p-" \o name

\* The remote API holding no auth method.
NoAuthMethods == [n \in Names |-> Nil]

\* The record the remote keeps for the fields of a create or update body:
\* the bound IPs as one comma-joined string.
RemoteRecord(body, accessId) ==
    [AuthMethodAccessId |-> accessId,
     AccessExpires |-> IF body.AccessExpires = Nil THEN 0 ELSE Deref(body.AccessExpires),
     ForceSubClaims |-> IF body.ForceSubClaims = Nil THEN FALSE ELSE Deref(body.ForceSubClaims),
     CidrWhitelist |-> IF body.BoundIps = Nil THEN <<>> ELSE Join(Deref(body.BoundIps), Comma),
     UniqueIdentifier |-> body.UniqueIdentifier,
     IdpMetadataUrl |-> IF body.IdpMetadataUrl = Nil THEN "" ELSE Deref(body.IdpMetadataUrl),
     AllowedRedirectURIs |-> IF body.AllowedRedirectUri = Nil THEN <<>> ELSE Deref(body.AllowedRedirectUri)]

\* CreateAuthMethodSAML on the remote holding rem.
RemoteCreate(rem, body, fault) ==
    IF fault = "transport" THEN [resp |-> TransportError, rem |-> rem]
    ELSE IF fault = "api" THEN [resp |-> ApiError(500, "internal error"), rem |-> rem]
    ELSE IF rem[body.Name] # Nil
    THEN [resp |-> ApiError(409, "already exists"), rem |-> rem]
    ELSE [resp |-> Ok([AccessId |-> Ptr(AccessIdOf(body.Name))]),
          rem |-> [rem EXCEPT ![body.Name] =
                      Ptr(RemoteRecord(body, AccessIdOf(body.Name)))]]

\* A field of a response: a zero value may be left out of the JSON, and is
\* then a nil pointer on the client.
Field(val, zero, omitZero) == IF omitZero /\ val = zero THEN Nil ELSE Ptr(val)

\* GetAuthMethod on the remote holding rem.
RemoteGet(rem, body, fault, omitZero) ==
    IF fault = "transport" THEN [resp |-> TransportError, rem |-> rem]
    ELSE IF fault = "api" THEN [resp |-> ApiError(500, "internal error"), rem |-> rem]
    ELSE IF body.Name \notin Names \/ rem[body.Name] = Nil
    THEN [resp |-> ApiError(StatusNotFound, "not found"), rem |-> rem]
    ELSE LET rec == Deref(rem[body.Name])
         IN  [resp |-> Ok(
                 [AuthMethodAccessId |-> Ptr(rec.AuthMethodAccessId),
                  AccessExpires |-> Field(rec.AccessExpires, 0, omitZero),
                  ForceSubClaims |-> Field(rec.ForceSubClaims, FALSE, omitZero),
                  CidrWhitelist |-> Field(rec.CidrWhitelist, <<>>, omitZero),
                  UniqueIdentifier |-> Ptr(rec.UniqueIdentifier),
                  IdpMetadataUrl |-> Field(rec.IdpMetadataUrl, "", omitZero),
                  AllowedRedirectURIs |-> Field(rec.AllowedRedirectURIs, <<>>, omitZero)]),
              rem |-> rem]

\* UpdateAuthMethodSAML on the remote holding rem: the auth method Name
\* gets the fields of the body and the name NewName.
RemoteUpdate(rem, body, fault) ==
    LET newName == IF body.NewName = Nil THEN body.Name ELSE Deref(body.NewName)
    IN  IF fault = "transport" THEN [resp |-> TransportError, rem |-> rem]
        ELSE IF fault = "api" THEN [resp |-> ApiError(500, "internal error"), rem |-> rem]
        ELSE IF rem[body.Name] = Nil
        THEN [resp |-> ApiError(StatusNotFound, "not found"), rem |-> rem]
        ELSE IF newName # body.Name /\ rem[newName] # Nil
        THEN [resp |-> ApiError(409, "already exists"), rem |-> rem]
        ELSE [resp |-> Ok(Nil),
              rem |-> [[rem EXCEPT ![body.Name] = Nil] EXCEPT ![newName] =
                          Ptr(RemoteRecord(body, Deref(rem[body.Name]).AuthMethodAccessId))]]

\* DeleteAuthMethod on the remote holding rem.
RemoteDelete(rem, body, fault) ==
    IF fault = "transport" THEN [resp |-> TransportError, rem |-> rem]
    ELSE IF fault = "api" THEN [resp |-> ApiError(500, "internal error"), rem |-> rem]
    ELSE IF rem[body.Name] = Nil
    THEN [resp |-> ApiError(StatusNotFound, "not found"), rem |-> rem]
    ELSE [resp |-> Ok(Nil), rem |-> [rem EXCEPT ![body.Name] = Nil]]

\* err.Error() of a failed remote call, the error value the client returns.
ErrorOf(resp) == resp.text

(* The handlers *)

\* The provider meta the handlers run with: that of a configureProvider
\* that succeeded with an api_key_login block.
ReadyConfig == [NoConfig EXCEPT !.api_key_login = <<ApiKeyBlock>>]
ReadyEnv == [AKEYLESS_ACCESS_ID |-> "", AKEYLESS_ACCESS_KEY |-> ""]
Ready == configureProvider(ReadyConfig, LoginBlocks(NoConfig), ReadyEnv, "ok")

\* Lines 87-106 of resourceAuthMethodSamlCreate: the request body built
\* from the fields of dd; ips and uris are the orders in which the two
\* sets are listed.
createRequest(dd, token, ips, uris) ==
    [Name |-> dd.name, UniqueIdentifier |-> dd.unique_identifier, Token |-> token,
     AccessExpires |-> GetAkeylessPtr(dd.access_expires),
     BoundIps |-> GetAkeylessPtr(ExpandStringList(ips)),
     ForceSubClaims |-> GetAkeylessPtr(dd.force_sub_claims),
     IdpMetadataUrl |-> GetAkeylessPtr(dd.idp_metadata_url),
     AllowedRedirectUri |-> GetAkeylessPtr(ExpandStringList(uris)),
     NewName |-> Nil]

\* Create that sets the identity before it looks at the remote's answer.
resourceAuthMethodSamlCreateEarlyId(dd, resp) ==
    IF resp.kind = "api"
    THEN [d |-> [dd EXCEPT !.id = dd.name], err |-> "can't create Secret: " \o resp.body]
    ELSE IF resp.kind = "transport"
    THEN [d |-> [dd EXCEPT !.id = dd.name], err |-> "can't create Secret: " \o ErrorOf(resp)]
    ELSE [d |-> [dd EXCEPT !.id = dd.name, !.access_id = Deref(resp.out.AccessId)],
          err |-> NoErr]

\* Lines 108-125 of resourceAuthMethodSamlCreate: what Create does with
\* the remote's answer.  Result: the ResourceData and the returned error.
resourceAuthMethodSamlCreate(dd, resp) ==
    IF resp.kind = "api"
    THEN [d |-> dd, err |-> "can't create Secret: " \o resp.body]
    ELSE IF resp.kind = "transport"
    THEN [d |-> dd, err |-> "can't create Secret: " \o ErrorOf(resp)]
    ELSE LET d1 == IF resp.out.AccessId # Nil
                   THEN [dd EXCEPT !.access_id = Deref(resp.out.AccessId)]
                   ELSE dd
         IN  [d |-> [d1 EXCEPT !.id = dd.name], err |-> NoErr]

\* Lines 136-141 of resourceAuthMethodSamlRead: the request.
readRequest(dd, token) == [Name |-> dd.id, Token |-> token, NewName |-> Nil]

\* bound_ips set to the whole whitelist string as one element.
readBoundIpsNoSplit(old, cidr) ==
    IF cidr # Nil /\ Deref(cidr) # <<>> THEN {Deref(cidr)} ELSE old

\* Lines 174-179 of resourceAuthMethodSamlRead: bound_ips after Read, for
\* the value old before it and the CidrWhitelist of the response.
readBoundIps(old, cidr) ==
    IF cidr # Nil /\ Deref(cidr) # <<>> THEN SetOf(Split(Deref(cidr), Comma)) ELSE old

\* Read that treats every structured API error as "not found".
resourceAuthMethodSamlReadAnyApiError(dd, resp) ==
    IF resp.kind = "api" THEN [d |-> [dd EXCEPT !.id = ""], err |-> NoErr]
    ELSE IF resp.kind = "transport"
    THEN [d |-> dd, err |-> "can't get value: " \o ErrorOf(resp)]
    ELSE [d |-> dd, err |-> NoErr]

\* Lines 143-204 of resourceAuthMethodSamlRead: what Read does with the
\* remote's answer.  The d.Set calls get values of the schema's types and
\* do not fail.
resourceAuthMethodSamlRead(dd, resp) ==
    IF resp.kind = "api"
    THEN IF resp.status = StatusNotFound
         THEN [d |-> [dd EXCEPT !.id = ""], err |-> NoErr]
         ELSE [d |-> dd, err |-> "can't value: " \o resp.body]
    ELSE IF resp.kind = "transport"
    THEN [d |-> dd, err |-> "can't get value: " \o ErrorOf(resp)]
    ELSE LET rOut == resp.out
             pick(old, ptr) == IF ptr # Nil THEN Deref(ptr) ELSE old
         IN  [d |-> [dd EXCEPT
                  !.access_id = pick(@, rOut.AuthMethodAccessId),
                  !.access_expires = pick(@, rOut.AccessExpires),
                  !.force_sub_claims = pick(@, rOut.ForceSubClaims),
                  !.bound_ips = readBoundIps(@, rOut.CidrWhitelist),
                  !.unique_identifier = pick(@, rOut.UniqueIdentifier),
                  !.idp_metadata_url = pick(@, rOut.IdpMetadataUrl),
                  !.allowed_redirect_uri =
                      IF rOut.AllowedRedirectURIs # Nil
                      THEN SetOf(Deref(rOut.AllowedRedirectURIs)) ELSE @,
                  !.id = dd.id],
              err |-> NoErr]

\* An update request that renames to the other name.
updateRequestRename(dd, token, ips, uris) ==
    [createRequest(dd, token, ips, uris) EXCEPT
        !.NewName = GetAkeylessPtr(CHOOSE n \in Names : n # dd.name)]

\* Lines 214-234 of resourceAuthMethodSamlUpdate: the request body.
updateRequest(dd, token, ips, uris) ==
    [createRequest(dd, token, ips, uris) EXCEPT !.NewName = GetAkeylessPtr(dd.name)]

\* Lines 236-246 of resourceAuthMethodSamlUpdate: what Update does with
\* the remote's answer.
resourceAuthMethodSamlUpdate(dd, resp) ==
    IF resp.kind = "api"
    THEN [d |-> dd, err |-> "can't update : " \o resp.body]
    ELSE IF resp.kind = "transport"
    THEN [d |-> dd, err |-> "can't update : " \o ErrorOf(resp)]
    ELSE [d |-> [dd EXCEPT !.id = dd.name], err |-> NoErr]

\* Lines 254-259 of resourceAuthMethodSamlDelete: the request.
deleteRequest(dd, token) == [Name |-> dd.id, Token |-> token, NewName |-> Nil]

\* Delete that tolerates "not found", as Read does.
resourceAuthMethodSamlDeleteTolerant(dd, resp) ==
    IF resp.kind = "api" /\ resp.status = StatusNotFound
    THEN [d |-> dd, err |-> NoErr]
    ELSE IF resp.kind # "ok" THEN [d |-> dd, err |-> ErrorOf(resp)]
    ELSE [d |-> dd, err |-> NoErr]

\* Lines 262-267 of resourceAuthMethodSamlDelete.
resourceAuthMethodSamlDelete(dd, resp) ==
    IF resp.kind # "ok" THEN [d |-> dd, err |-> ErrorOf(resp)]
    ELSE [d |-> dd, err |-> NoErr]

\* Lines 283-293 of resourceAuthMethodSamlImport, for the ResourceData dd
\* whose identity Terraform set to the imported path.  On failure Import
\* returns no ResourceData (d is Nil).
resourceAuthMethodSamlImport(dd, resp) ==
    IF resp.kind # "ok" THEN [d |-> Nil, err |-> ErrorOf(resp)]
    ELSE [d |-> Ptr([dd EXCEPT !.name = dd.id]), err |-> NoErr]

\* What is remembered of a handler call: the names in its request, the
\* remote's answer, the returned error, and whether the handler call
\* right before it was a Create that succeeded.
Called(op, req, resp, err) ==
    [op |-> op, name |-> req.Name, newName |-> req.NewName,
     kind |-> resp.kind, status |-> resp.status, raw |-> ErrorOf(resp), err |-> err,
     afterCreate |-> (last.op = "Create" /\ last.err = NoErr)]

\* No handler call, or something else happened since the latest one.
NoCall(op) ==
    [op |-> op, name |-> "", newName |-> Nil,
     kind |-> "ok", status |-> 0, raw |-> "", err |-> NoErr, afterCreate |-> FALSE]

ProvReady ==
    /\ apiKeyLogin = Ready.g.apiKeyLogin
    /\ emailLogin = Ready.g.emailLogin
    /\ awsIAMLogin = Ready.g.awsIAMLogin
    /\ azureADLogin = Ready.g.azureADLogin
    /\ env = ReadyEnv
    /\ cfg = ReadyConfig
    /\ authBody = Ready.body
    /\ calls = Ready.calls
    /\ ret = [called |-> TRUE, meta |-> Ready.meta, err |-> Ready.err]
    /\ ranSetAuthBody = Ready.ranSetAuthBody
    /\ leftBehind = FALSE

ResInit ==
    /\ d \in { ResourceData(c) : c \in ResourceConfigs }
    /\ remote = NoAuthMethods
    /\ last = NoCall("")

\* Terraform plans a new resource from configuration c.
NewResourceData(c) ==
    /\ d' = ResourceData(c)
    /\ last' = NoCall("New")
    /\ UNCHANGED <<remote, provVars>>

\* Terraform applies the creation of the planned resource.
Create(fault) ==
    /\ d.id = ""
    /\ \E ips \in Orderings(d.bound_ips), uris \in Orderings(d.allowed_redirect_uri) :
        \E body \in {createRequest(d, Deref(ret.meta), ips, uris)} :
        \E r \in {RemoteCreate(remote, body, fault)} :
        \E h \in {resourceAuthMethodSamlCreate(d, r.resp)} :
            /\ d' = h.d
            /\ remote' = r.rem
            /\ last' = Called("Create", body, r.resp, h.err)
            /\ UNCHANGED provVars

\* Terraform refreshes the resource.
Read(fault, omitZero) ==
    /\ d.id # ""
    /\ \E body \in {readRequest(d, Deref(ret.meta))} :
       \E r \in {RemoteGet(remote, body, fault, omitZero)} :
       \E h \in {resourceAuthMethodSamlRead(d, r.resp)} :
            /\ d' = h.d
            /\ remote' = r.rem
            /\ last' = Called("Read", body, r.resp, h.err)
            /\ UNCHANGED provVars

\* Terraform applies a change of the resource's fields to those of c (a
\* change of name is ForceNew and never reaches Update).
Update(c, fault) ==
    /\ d.id # ""
    /\ c.name = d.name
    /\ \E planned \in {[ResourceData(c) EXCEPT !.id = d.id, !.access_id = d.access_id]} :
       \E ips \in Orderings(planned.bound_ips),
          uris \in Orderings(planned.allowed_redirect_uri) :
       \E body \in {updateRequest(planned, Deref(ret.meta), ips, uris)} :
       \E r \in {RemoteUpdate(remote, body, fault)} :
       \E h \in {resourceAuthMethodSamlUpdate(planned, r.resp)} :
            /\ d' = h.d
            /\ remote' = r.rem
            /\ last' = Called("Update", body, r.resp, h.err)
            /\ UNCHANGED provVars

\* Terraform destroys the resource.
Delete(fault) ==
    /\ d.id # ""
    /\ \E body \in {deleteRequest(d, Deref(ret.meta))} :
       \E r \in {RemoteDelete(remote, body, fault)} :
       \E h \in {resourceAuthMethodSamlDelete(d, r.resp)} :
            /\ d' = h.d
            /\ remote' = r.rem
            /\ last' = Called("Delete", body, r.resp, h.err)
            /\ UNCHANGED provVars

\* Terraform imports the auth method named path.
Import(path, fault) ==
    \E dd \in {ImportData(path)} :
    \E body \in {readRequest(dd, Deref(ret.meta))} :
    \E r \in {RemoteGet(remote, body, fault, FALSE)} :
    \E h \in {resourceAuthMethodSamlImport(dd, r.resp)} :
        /\ d' = IF h.d = Nil THEN d ELSE Deref(h.d)
        /\ remote' = r.rem
        /\ last' = Called("Import", body, r.resp, h.err)
        /\ UNCHANGED provVars

\* Someone deletes the auth method n outside of Terraform.
OutOfBandDelete(n) ==
    /\ remote[n] # Nil
    /\ remote' = [remote EXCEPT ![n] = Nil]
    /\ last' = NoCall("OutOfBand")
    /\ UNCHANGED <<d, provVars>>

ResNext ==
    \/ \E c \in ResourceConfigs : NewResourceData(c)
    \/ \E fault \in Faults : Create(fault)
    \/ \E fault \in Faults, omitZero \in BOOLEAN : Read(fault, omitZero)
    \/ \E c \in ResourceConfigs, fault \in Faults : Update(c, fault)
    \/ \E fault \in Faults : Delete(fault)
    \/ \E path \in Names, fault \in Faults : Import(path, fault)
    \/ \E n \in Names : OutOfBandDelete(n)

----------------------------------------------------------------------------
(* Specifications *)

\* configureProvider run again and again in one process.
InitProvider ==
    /\ apiKeyLogin = <<>>
    /\ emailLogin = <<>>
    /\ awsIAMLogin = <<>>
    /\ azureADLogin = <<>>
    /\ env \in Envs
    /\ cfg = NoConfig
    /\ authBody = NewAuthWithDefaults
    /\ calls = <<>>
    /\ ret = [called |-> FALSE, meta |-> Nil, err |-> NoErr]
    /\ ranSetAuthBody = FALSE
    /\ leftBehind = FALSE
    /\ d = ResourceData(CHOOSE c \in ResourceConfigs : TRUE)
    /\ remote = NoAuthMethods
    /\ last = NoCall("")

SpecProvider == InitProvider /\ [][ProvNext]_vars

\* The resource handlers under a configured provider.
Init == ProvReady /\ ResInit

Next == ResNext

Spec == Init /\ [][Next]_vars

----------------------------------------------------------------------------
(* Properties of resource_auth_method_saml.go *)

\* The names of the auth methods the remote holds.
RemoteNames(rem) == { n \in Names : rem[n] # Nil }

\* C4: a Read whose remote get fails with a structured API error of status
\* 404 leaves the identity empty and returns no error; a Read that fails in
\* any other way (another status, a transport error) returns an error and
\* leaves the identity as it was; a Read that succeeds leaves the identity
\* as it was.
C4_ReadNotFoundClearsId ==
    [][ last'.op = "Read" =>
          IF last'.kind = "api" /\ last'.status = StatusNotFound
          THEN d'.id = "" /\ last'.err = NoErr
          ELSE IF last'.kind # "ok"
          THEN last'.err # NoErr /\ d'.id = d.id
          ELSE last'.err = NoErr /\ d'.id = d.id ]_vars

\* C4 witness: the auth method was created (its access_id is in state),
\* then deleted out-of-band, and Read has cleared the identity.
C4_Witness ==
    /\ last.op = "Read"
    /\ last.kind = "api"
    /\ last.status = StatusNotFound
    /\ last.err = NoErr
    /\ d.id = ""
    /\ d.access_id = AccessIdOf(d.name)
    /\ remote[d.name] = Nil

\* No element of the set is empty or holds a comma.
CommaFree(ips) == \A e \in ips : e # <<>> /\ \A i \in 1..Len(e) : e[i] # Comma

C6_UpdateNeverRenames ==
    [][ last'.op = "Update" =>
          /\ last'.name = d.name
          /\ last'.newName = {last'.name}
          /\ RemoteNames(remote') = RemoteNames(remote)
          /\ d'.name = d.name
          /\ IF last'.kind = "ok"
             THEN last'.err = NoErr /\ d'.id = d'.name
             ELSE last'.err # NoErr /\ d'.id = d.id ]_vars

\* C6 witness: an Update has succeeded and the auth method is still held
\* under the configured name.
C6_Witness ==
    /\ last.op = "Update"
    /\ last.err = NoErr
    /\ d.id = d.name
    /\ RemoteNames(remote) = {d.name}
    /\ Deref(remote[d.name]).AccessExpires = d.access_expires

\* C7: a Delete whose remote call fails returns exactly the remote call's
\* error, a 404 included, and a Delete returns no error only when the
\* remote call succeeded.
C7_DeleteSurfacesError ==
    last.op = "Delete" =>
        /\ last.kind # "ok" => (last.err = last.raw /\ last.err # NoErr)
        /\ last.err = NoErr <=> last.kind = "ok"

\* C7 witness: the auth method is gone from the remote, and Delete has
\* failed with the remote's 404.
C7_Witness ==
    /\ last.op = "Delete"
    /\ last.kind = "api"
    /\ last.status = StatusNotFound
    /\ last.err # NoErr
    /\ remote[last.name] = Nil

\* C9: a Create whose remote call succeeds sets the identity to the
\* configured name and stores the access ID the remote computed; a Create
\* whose remote call fails returns an error and leaves the identity and
\* access_id as they were.
C9_CreateSetsIdOnSuccessOnly ==
    [][ last'.op = "Create" =>
          IF last'.kind = "ok"
          THEN /\ last'.err = NoErr
               /\ d'.id = d.name
               /\ remote'[d.name] # Nil
               /\ d'.access_id = Deref(remote'[d.name]).AuthMethodAccessId
          ELSE /\ last'.err # NoErr
               /\ d'.id = d.id
               /\ d'.access_id = d.access_id ]_vars

\* C9 witness: the remote create failed with a structured API error (the
\* name is taken), and the resource has no identity.
C9_Witness ==
    /\ last.op = "Create"
    /\ last.kind = "api"
    /\ last.err # NoErr
    /\ d.id = ""
    /\ d.access_id = ""

====
